---- MODULE Spec2Model ----
(***************************************************************************)
(* Model of main.py: a directory walker that re-encodes videos through an  *)
(* external encoder and images through an image library, writing           *)
(* <stem>_CONVERTED<ext> next to each original.                            *)
(*                                                                         *)
(* File names are sequences of tokens: a token is a run of characters that *)
(* is either an ordinary piece of a name ("a"), the converted tag as a     *)
(* whole, or an extension (a token that starts with a dot and holds no     *)
(* other dot).  Concatenation of strings is concatenation of sequences and *)
(* the substring test for the tag is membership of the tag token.          *)
(*                                                                         *)
(* Environment: the external encoder, when the shell can start it, either  *)
(* leaves a file at the destination path of its command line or leaves     *)
(* nothing; it touches no other path.  The image library either raises or  *)
(* writes the destination.                                                 *)
(***************************************************************************)
EXTENDS Integers, Sequences, FiniteSets, TLC

VARIABLES
    fs,          \* the file system: existing regular file -> content <<w, h>>
    platform,    \* sys.platform of the interpreter
    pc,          \* position of main(): "idle", "walking", "done" or the exception raised
    run,         \* number of calls of main() started so far
    args,        \* the arguments of the current call of main()
    walk_stack,  \* os.walk: directories still to be listed
    root,        \* os.walk: the directory being iterated
    files,       \* os.walk: files of root not yet iterated
    visited,     \* history: file visited in this run -> what the loop body did
    calls,       \* history: calls of ffmpeg_convert / image_resize of this run
    prev,        \* history: the state when the current run started
    size_in_bytes,  \* readable_size: the argument, base 1000 limbs, low limb first
    new_size,       \* readable_size: the string returned, as value and unit
    proc         \* two concurrent runs: each run's position and locals

walkvars == <<fs, platform, pc, run, args, walk_stack, root, files, visited, calls, prev>>

sizevars == <<size_in_bytes, new_size>>

vars == <<walkvars, sizevars, proc>>

----------------------------------------------------------------------------
(* Bounds *)

MaxRuns == 2

MaxDim == 5

MaxLimbs == 6

----------------------------------------------------------------------------
(* Names, paths and the directory tree the model walks *)

converted_tag == "_CONVERTED"

video_extensions == <<".mp4", ".mov", ".mkv">>

image_extensions == <<".jpg", ".jpeg", ".png">>

allowed_extensions == video_extensions \o image_extensions

InList(x, list) == \E i \in 1..Len(list) : list[i] = x

\* str.lower() on the extension tokens that occur
lower(s) ==
    CASE s = ".MP4" -> ".mp4"
      [] s = ".PNG" -> ".png"
      [] s = ".JPG" -> ".jpg"
      [] OTHER -> s

DotTokens == {".mp4", ".mov", ".mkv", ".jpg", ".jpeg", ".png",
              ".MP4", ".PNG", ".JPG", ".txt"}

\* os.path.splitext: the extension is the last dot token, unless the name
\* consists of it alone (leading dots belong to the stem)
splitext(file) ==
    IF Len(file) >= 2 /\ file[Len(file)] \in DotTokens
    THEN <<SubSeq(file, 1, Len(file) - 1), file[Len(file)]>>
    ELSE <<file, "">>

\* a string as a token sequence ("" is the empty sequence)
Str(s) == IF s = "" THEN <<>> ELSE <<s>>

\* os.path.join(root, file)
join(dir, file) == [dir |-> dir, name |-> file]

MainDir == "root"

SubDir == "sub"

Dirs == {MainDir, SubDir}

\* the sub-directories os.walk finds in a directory
Subdirs(d) == IF d = MainDir THEN <<SubDir>> ELSE <<>>

InitialPaths ==
    { join(MainDir, <<"a", ".mp4">>),
      join(MainDir, <<"a", converted_tag, ".mp4">>),
      join(MainDir, <<"b", ".PNG">>),
      join(MainDir, <<"n", ".txt">>),
      join(SubDir, <<"a", ".mp4">>),
      join(SubDir, <<converted_tag, "c", ".jpg">>) }

Platforms == {"linux", "win32", "aix"}

InitialSize == <<4, 3>>

NoSize == <<0, 0>>

IsImageName(file) == InList(lower(splitext(file)[2]), image_extensions)

InitialContent(p) == IF IsImageName(p.name) THEN InitialSize ELSE NoSize

isfile(f, path) == path \in DOMAIN f

isdir(path) == path \in Dirs

listdir(f, dir) == { p.name : p \in { q \in DOMAIN f : q.dir = dir } }

----------------------------------------------------------------------------
(* File system helpers *)

Empty == [p \in {} |-> NoSize]

\* creating or truncating a file
write(f, path, content) ==
    [p \in DOMAIN f \cup {path} |-> IF p = path THEN content ELSE f[p]]

\* os.remove on an existing file
remove(f, path) == [p \in DOMAIN f \ {path} |-> f[p]]

Exceptions ==
    {"NotADirectoryError", "FileExistsError", "UnboundLocalError",
     "FileNotFoundError", "ImageOpenError", "KeyError", "ImageSaveError"}

----------------------------------------------------------------------------
(* ffmpeg_command, ffmpeg_convert *)

Unbound == "<unbound>"

\* the platform specific ffmpeg path; no branch assigns it on other platforms
ffmpeg_path(plat) ==
    CASE plat = "freebsd" -> "ffmpeg"
      [] plat = "linux" -> "ffmpeg"
      [] plat = "win32" -> ""
      [] plat = "cygwin" -> ""
      [] plat = "darwin" -> "ffmpeg"
      [] OTHER -> Unbound

Quoted(path) == [quoted |-> path]

\* the command line as a list, or the exception raised while building it
ffmpeg_command(f, plat, input_video, output_video, video_crf) ==
    IF ~isfile(f, input_video)
    THEN [raises |-> "FileExistsError", command |-> <<>>]
    ELSE IF ffmpeg_path(plat) = Unbound
    THEN [raises |-> "UnboundLocalError", command |-> <<>>]
    ELSE [raises |-> "",
          command |-> <<ffmpeg_path(plat), "-i", Quoted(input_video),
                        "-c:v", "libx264", "-preset:v", "ultrafast",
                        "-crf", video_crf, "-c:a", "aac", "-b:a", "320k",
                        "-threads", "0", "-movflags", "+faststart",
                        Quoted(output_video)>>]

\* os.system(command): the file systems the shell command can leave behind.
\* An empty program name starts nothing; the encoder, started, leaves a file
\* at its last argument or fails and leaves nothing.  The exit status is
\* dropped by the caller.
os_system(f, command) ==
    IF command[1] = ""
    THEN {f}
    ELSE {f, write(f, command[Len(command)].quoted, NoSize)}

\* send_file_to_trash(path): os.remove(path)
send_file_to_trash(f, path) == remove(f, path)

CallRecord(fn, src, dst, delete_original, new_width, outcome, f1) ==
    [fn |-> fn, src |-> src, dst |-> dst, delete_original |-> delete_original,
     new_width |-> new_width, outcome |-> outcome,
     src_size |-> IF isfile(fs, src) THEN fs[src] ELSE NoSize,
     dst_existed |-> isfile(fs, dst),
     src_after |-> isfile(f1, src), dst_after |-> isfile(f1, dst),
     out_size |-> IF isfile(f1, dst) THEN f1[dst] ELSE NoSize]

\* a call that raises: the exception propagates out of main()
Raise(exc, fn, src, dst, delete_original, new_width, f1) ==
    /\ fs' = f1
    /\ pc' = exc
    /\ calls' = calls \cup
           {CallRecord(fn, src, dst, delete_original, new_width, exc, f1)}

Return(fn, src, dst, delete_original, new_width, f1) ==
    /\ fs' = f1
    /\ pc' = pc
    /\ calls' = calls \cup
           {CallRecord(fn, src, dst, delete_original, new_width, "returned", f1)}

\* variant: the original is removed only when the encoder left an output
ffmpeg_convert_checks_output(original_file_path, new_file_path, delete_original, video_crf) ==
    LET built == ffmpeg_command(fs, platform, original_file_path,
                                new_file_path, video_crf)
    IN  IF built.raises # ""
        THEN Raise(built.raises, "ffmpeg_convert", original_file_path,
                   new_file_path, delete_original, 0, fs)
        ELSE \E f1 \in os_system(fs, built.command) :
                IF delete_original /\ isfile(f1, new_file_path)
                THEN Return("ffmpeg_convert", original_file_path,
                            new_file_path, delete_original, 0,
                            send_file_to_trash(f1, original_file_path))
                ELSE Return("ffmpeg_convert", original_file_path,
                            new_file_path, delete_original, 0, f1)

\* variant: the original is removed whatever the delete flag says
ffmpeg_convert_ignores_flag(original_file_path, new_file_path, delete_original, video_crf) ==
    LET built == ffmpeg_command(fs, platform, original_file_path,
                                new_file_path, video_crf)
    IN  IF built.raises # ""
        THEN Raise(built.raises, "ffmpeg_convert", original_file_path,
                   new_file_path, delete_original, 0, fs)
        ELSE \E f1 \in os_system(fs, built.command) :
                Return("ffmpeg_convert", original_file_path,
                       new_file_path, delete_original, 0,
                       send_file_to_trash(f1, original_file_path))

ffmpeg_convert(original_file_path, new_file_path, delete_original, video_crf) ==
    LET built == ffmpeg_command(fs, platform, original_file_path,
                                new_file_path, video_crf)
    IN  IF built.raises # ""
        THEN Raise(built.raises, "ffmpeg_convert", original_file_path,
                   new_file_path, delete_original, 0, fs)
        ELSE \E f1 \in os_system(fs, built.command) :
                IF ~delete_original
                THEN Return("ffmpeg_convert", original_file_path,
                            new_file_path, delete_original, 0, f1)
                ELSE IF ~isfile(f1, original_file_path)
                THEN Raise("FileNotFoundError", "ffmpeg_convert",
                           original_file_path, new_file_path,
                           delete_original, 0, f1)
                ELSE Return("ffmpeg_convert", original_file_path,
                            new_file_path, delete_original, 0,
                            send_file_to_trash(f1, original_file_path))

----------------------------------------------------------------------------
(* image_resize *)

\* variant: the quotient is truncated
round_down(num, den) == num \div den

\* round(num / den) of Python 3: to the nearest integer, a tie to the even one
round(num, den) ==
    LET q == num \div den
        r == num % den
    IN  IF 2 * r < den THEN q
        ELSE IF 2 * r > den THEN q + 1
        ELSE IF q % 2 = 0 THEN q ELSE q + 1

\* the size handed to Image.resize for an image of size <<width, height>>
resized(size, new_width) ==
    LET width == size[1]
        height == size[2]
        w1 == IF new_width = 0 THEN width ELSE new_width
        w2 == IF w1 > width THEN width ELSE w1
    IN  <<w2, round(w2 * height, width)>>

\* what the image library can do with one call: fail to open, hold no EXIF
\* block, fail while saving (leaving a partial file or none), or succeed.
\* A file that holds no image (content NoSize) cannot be opened.
ImageOutcomes == {"ImageOpenError", "KeyError", "ImageSaveError", "saved"}

\* a failure that is caught: the walk goes on
Caught(exc, fn, src, dst, delete_original, new_width, f1) ==
    /\ fs' = f1
    /\ pc' = pc
    /\ calls' = calls \cup
           {CallRecord(fn, src, dst, delete_original, new_width, exc, f1)}

\* variant: every failure of the image library is caught per file
image_resize_isolated(original_file_path, new_file_path, new_width, delete_original, image_quality) ==
    IF ~isfile(fs, original_file_path) \/ fs[original_file_path] = NoSize
    THEN Caught("ImageOpenError", "image_resize", original_file_path,
                new_file_path, delete_original, new_width, fs)
    ELSE \E outcome \in ImageOutcomes :
           LET new_img == resized(fs[original_file_path], new_width)
               saved == write(fs, new_file_path, new_img)
           IN  IF outcome # "saved"
               THEN Caught(outcome, "image_resize", original_file_path,
                           new_file_path, delete_original, new_width, fs)
               ELSE IF delete_original
               THEN Return("image_resize", original_file_path,
                           new_file_path, delete_original, new_width,
                           send_file_to_trash(saved, original_file_path))
               ELSE Return("image_resize", original_file_path,
                           new_file_path, delete_original, new_width, saved)

\* variant: the original is removed in a finally block, failure or not
image_resize_finally_deletes(original_file_path, new_file_path, new_width, delete_original, image_quality) ==
    IF ~isfile(fs, original_file_path) \/ fs[original_file_path] = NoSize
    THEN Raise("ImageOpenError", "image_resize", original_file_path,
               new_file_path, delete_original, new_width, fs)
    ELSE \E outcome \in ImageOutcomes :
           LET new_img == resized(fs[original_file_path], new_width)
               saved == write(fs, new_file_path, new_img)
               after(f) == IF delete_original
                           THEN send_file_to_trash(f, original_file_path)
                           ELSE f
           IN  IF outcome # "saved"
               THEN Raise(outcome, "image_resize", original_file_path,
                          new_file_path, delete_original, new_width, after(fs))
               ELSE Return("image_resize", original_file_path,
                           new_file_path, delete_original, new_width,
                           after(saved))

image_resize(original_file_path, new_file_path, new_width, delete_original, image_quality) ==
    IF ~isfile(fs, original_file_path) \/ fs[original_file_path] = NoSize
    THEN Raise("ImageOpenError", "image_resize", original_file_path,
               new_file_path, delete_original, new_width, fs)
    ELSE \E outcome \in ImageOutcomes :
           LET new_img == resized(fs[original_file_path], new_width)
               saved == write(fs, new_file_path, new_img)
           IN  CASE outcome \in {"ImageOpenError", "KeyError"} ->
                      Raise(outcome, "image_resize", original_file_path,
                            new_file_path, delete_original, new_width, fs)
                 [] outcome = "ImageSaveError" ->
                      \E f1 \in {fs, write(fs, new_file_path, NoSize)} :
                          Raise(outcome, "image_resize", original_file_path,
                                new_file_path, delete_original, new_width, f1)
                 [] outcome = "saved" ->
                      IF delete_original
                      THEN Return("image_resize", original_file_path,
                                  new_file_path, delete_original, new_width,
                                  send_file_to_trash(saved, original_file_path))
                      ELSE Return("image_resize", original_file_path,
                                  new_file_path, delete_original, new_width,
                                  saved)

----------------------------------------------------------------------------
(* main *)

Widths == {0, 2}

Qualities == {70}

Crfs == {23}

MainStart ==
    /\ pc # "walking"
    /\ run < MaxRuns
    /\ \E main_folder_path \in {MainDir, "missing"}, delete_original \in BOOLEAN,
          new_image_width \in Widths, image_quality \in Qualities,
          video_crf \in Crfs :
          /\ args' = [main_folder_path |-> main_folder_path,
                      delete_original |-> delete_original,
                      new_image_width |-> new_image_width,
                      image_quality |-> image_quality,
                      video_crf |-> video_crf]
          /\ IF ~isdir(main_folder_path)
             THEN pc' = "NotADirectoryError" /\ walk_stack' = <<>>
             ELSE pc' = "walking" /\ walk_stack' = <<main_folder_path>>
    /\ run' = run + 1
    /\ prev' = [completed |-> pc = "done", fs |-> fs, calls |-> calls]
    /\ root' = ""
    /\ files' = {}
    /\ visited' = Empty
    /\ calls' = {}
    /\ UNCHANGED <<fs, platform, sizevars, proc>>

\* os.walk yields the next directory, top-down, with the files it holds now
WalkNext ==
    /\ pc = "walking"
    /\ files = {}
    /\ walk_stack # <<>>
    /\ root' = Head(walk_stack)
    /\ files' = listdir(fs, Head(walk_stack))
    /\ walk_stack' = Subdirs(Head(walk_stack)) \o Tail(walk_stack)
    /\ UNCHANGED <<fs, platform, pc, run, args, visited, calls, prev>>
    /\ UNCHANGED <<sizevars, proc>>

Skip(path, why) ==
    /\ visited' = (path :> why) @@ visited
    /\ UNCHANGED <<fs, pc, calls>>

\* variant: no test for the tag
is_converted_never(file_name) == FALSE

\* variant: the tag is looked for at the end of the stem only
is_converted_suffix(file_name) ==
    Len(file_name) > 0 /\ file_name[Len(file_name)] = converted_tag

\* variant: no test for an existing output
would_overwrite_unchecked(f, new_file_path) == FALSE

\* "Prevents reconvertion": the tag occurs in the stem
is_converted(file_name) == InList(converted_tag, file_name)

\* "Prevents overwrite": the output path is a file already
would_overwrite(f, new_file_path) == isfile(f, new_file_path)

\* the body of the loop over the files of a directory, for one file
Visit(file) ==
    LET file_name == splitext(file)[1]
        extension == splitext(file)[2]
        new_file_name == file_name \o <<converted_tag>> \o Str(extension)
        original_file_path == join(root, file)
        new_file_path == join(root, new_file_name)
    IN  IF ~InList(lower(extension), allowed_extensions)
        THEN Skip(original_file_path, "extension")
        ELSE IF is_converted(file_name)
        THEN Skip(original_file_path, "tag")
        ELSE IF would_overwrite(fs, new_file_path)
        THEN Skip(original_file_path, "exists")
        ELSE IF InList(lower(extension), video_extensions)
        THEN /\ visited' = (original_file_path :> "video") @@ visited
             /\ ffmpeg_convert(original_file_path, new_file_path,
                               args.delete_original, args.video_crf)
        ELSE IF InList(lower(extension), image_extensions)
        THEN /\ visited' = (original_file_path :> "image") @@ visited
             /\ image_resize(original_file_path, new_file_path,
                             args.new_image_width, args.delete_original,
                             args.image_quality)
        ELSE Skip(original_file_path, "none")

MainLoop ==
    /\ pc = "walking"
    /\ \E file \in files :
          /\ files' = files \ {file}
          /\ Visit(file)
    /\ UNCHANGED <<platform, run, args, walk_stack, root, prev, sizevars, proc>>

MainReturn ==
    /\ pc = "walking"
    /\ files = {}
    /\ walk_stack = <<>>
    /\ pc' = "done"
    /\ UNCHANGED <<fs, platform, run, args, walk_stack, root, files, visited,
                   calls, prev, sizevars, proc>>

NoArgs ==
    [main_folder_path |-> "", delete_original |-> FALSE, new_image_width |-> 0,
     image_quality |-> 0, video_crf |-> 0]

InitWalk ==
    /\ \E present \in SUBSET InitialPaths :
          fs = [p \in present |-> InitialContent(p)]
    /\ platform \in Platforms
    /\ pc = "idle"
    /\ run = 0
    /\ args = NoArgs
    /\ walk_stack = <<>>
    /\ root = ""
    /\ files = {}
    /\ visited = Empty
    /\ calls = {}
    /\ prev = [completed |-> FALSE, fs |-> Empty, calls |-> {}]

InitSizeIdle == size_in_bytes = <<>> /\ new_size = [value |-> 0, unit |-> ""]

InitProcIdle == proc = <<>>

Init == InitWalk /\ InitSizeIdle /\ InitProcIdle

Next == MainStart \/ WalkNext \/ MainLoop \/ MainReturn

Spec == Init /\ [][Next]_vars

----------------------------------------------------------------------------
(* image_resize called on its own, on one image of every size up to MaxDim and
   of the size 800 x 600 *)

ImagePath == join(MainDir, <<"b", ".png">>)

ResizedPath == join(MainDir, <<"b", converted_tag, ".png">>)

SourceWidths == 1..MaxDim \cup {800}

SourceHeights == 1..MaxDim \cup {600}

TargetWidths == 0..(MaxDim + 1) \cup {400}

InitResize ==
    /\ \E w \in SourceWidths, h \in SourceHeights : fs = (ImagePath :> <<w, h>>)
    /\ platform = "linux"
    /\ pc = "idle"
    /\ run = 0
    /\ args = NoArgs
    /\ walk_stack = <<>>
    /\ root = ""
    /\ files = {}
    /\ visited = Empty
    /\ calls = {}
    /\ prev = [completed |-> FALSE, fs |-> Empty, calls |-> {}]
    /\ InitSizeIdle
    /\ InitProcIdle

CallImageResize ==
    /\ pc = "idle"
    /\ calls = {}
    /\ \E new_width \in TargetWidths, delete_original \in BOOLEAN,
          image_quality \in Qualities :
          image_resize(ImagePath, ResizedPath, new_width, delete_original,
                       image_quality)
    /\ UNCHANGED <<platform, run, args, walk_stack, root, files, visited, prev,
                   sizevars, proc>>

SpecResize == InitResize /\ [][CallImageResize]_vars

----------------------------------------------------------------------------
(* readable_size.  A byte count is a sequence of limbs in base 1000, the low
   limb first and the high limb non-zero (zero is the empty sequence), so that
   counts beyond 1000^5 are within reach.  The string returned is modelled by
   the unit and by the value printed, in hundredths ("1.50KB" is value 150). *)

base == 1000

\* base ** k
Pow(k) == [i \in 1..(k + 1) |-> IF i = k + 1 THEN 1 ELSE 0]

\* a < b
Less(a, b) ==
    \/ Len(a) < Len(b)
    \/ /\ Len(a) = Len(b)
       /\ \E i \in 1..Len(a) :
             /\ a[i] < b[i]
             /\ \A j \in (i + 1)..Len(a) : a[j] = b[j]

\* a <= b
Leq(a, b) == a = b \/ Less(a, b)

RECURSIVE Val(_)
\* the number a limb sequence stands for
Val(a) == IF a = <<>> THEN 0 ELSE a[1] + base * Val(Tail(a))

\* f'{size_in_bytes / (base ** k):.2f}' in hundredths: the quotient is a float and
\* the format rounds it to two decimals.  Where the exact quotient lies half way
\* between two hundredths the digit printed depends on the float nearest to it,
\* which is either side of the half: both are possible.
Hundredths(n, k) ==
    LET whole == IF Len(n) > k THEN Val(SubSeq(n, k + 1, Len(n))) ELSE 0
        frac == IF k >= 1 /\ Len(n) >= k THEN n[k] ELSE 0
        rest == \E i \in 1..(k - 1) : i <= Len(n) /\ n[i] # 0
        down == 100 * whole + (frac \div 10)
    IN  IF k = 0 THEN {100 * whole}
        ELSE IF frac % 10 < 5 THEN {down}
        ELSE IF frac % 10 > 5 \/ rest THEN {down + 1}
        ELSE {down, down + 1}

Formatted(n, k, unit) == { [value |-> v, unit |-> unit] : v \in Hundredths(n, k) }

\* variant: the comparisons include the boundary
readable_size_inclusive(n) ==
    IF Leq(n, Pow(1)) THEN Formatted(n, 0, "B")
    ELSE IF Leq(n, Pow(2)) THEN Formatted(n, 1, "KB")
    ELSE IF Leq(n, Pow(3)) THEN Formatted(n, 2, "MB")
    ELSE IF Leq(n, Pow(4)) THEN Formatted(n, 3, "GB")
    ELSE IF Leq(n, Pow(5)) THEN Formatted(n, 4, "TB")
    ELSE Formatted(n, 5, "PB")

\* the strings readable_size can return for n
readable_size(n) ==
    IF Less(n, Pow(1)) THEN Formatted(n, 0, "B")
    ELSE IF Less(n, Pow(2)) THEN Formatted(n, 1, "KB")
    ELSE IF Less(n, Pow(3)) THEN Formatted(n, 2, "MB")
    ELSE IF Less(n, Pow(4)) THEN Formatted(n, 3, "GB")
    ELSE IF Less(n, Pow(5)) THEN Formatted(n, 4, "TB")
    ELSE Formatted(n, 5, "PB")

LowLimbs == {0, 5, 999}

TopLimbs == {1, 999}

SizeInputs ==
    {<<>>} \cup
    UNION { { n \in [1..len -> LowLimbs \cup TopLimbs] :
                /\ n[len] \in TopLimbs
                /\ \A i \in 1..(len - 1) : n[i] \in LowLimbs } : len \in 1..MaxLimbs }

NoString == [value |-> 0, unit |-> ""]

InitSize ==
    /\ size_in_bytes \in SizeInputs
    /\ new_size = NoString
    /\ fs = Empty
    /\ platform = "linux"
    /\ pc = "idle"
    /\ run = 0
    /\ args = NoArgs
    /\ walk_stack = <<>>
    /\ root = ""
    /\ files = {}
    /\ visited = Empty
    /\ calls = {}
    /\ prev = [completed |-> FALSE, fs |-> Empty, calls |-> {}]
    /\ InitProcIdle

CallReadableSize ==
    /\ new_size = NoString
    /\ new_size' \in readable_size(size_in_bytes)
    /\ UNCHANGED <<walkvars, size_in_bytes, proc>>

SpecSize == InitSize /\ [][CallReadableSize]_vars

----------------------------------------------------------------------------
(* Two runs of main() at once over the same folder.  Each run is the code of
   main(), ffmpeg_convert and image_resize cut at its accesses to the file
   system: the test for the output, the test for the input, the encoder or
   the save, the size query, the removal.  Nothing locks the folder. *)

Procs == {1, 2}

RaceInitialPaths ==
    { join(MainDir, <<"a", ".mp4">>), join(MainDir, <<"b", ".PNG">>) }

NoFile == join("", <<>>)

IdleProc ==
    [pc |-> "idle", delete_original |-> FALSE, new_image_width |-> 0,
     video_crf |-> 0, walk_stack |-> <<>>, root |-> "", files |-> {},
     src |-> NoFile, dst |-> NoFile, command |-> <<>>, size |-> NoSize]

InitRace ==
    /\ \E present \in SUBSET RaceInitialPaths :
          fs = [p \in present |-> InitialContent(p)]
    /\ platform \in Platforms
    /\ proc = [p \in Procs |-> IdleProc]
    /\ pc = "idle"
    /\ run = 0
    /\ args = NoArgs
    /\ walk_stack = <<>>
    /\ root = ""
    /\ files = {}
    /\ visited = Empty
    /\ calls = {}
    /\ prev = [completed |-> FALSE, fs |-> Empty, calls |-> {}]
    /\ InitSizeIdle

RaceFrame == UNCHANGED <<platform, pc, run, args, walk_stack, root, files, visited, prev, sizevars>>

\* run p goes to position at, with the fields given changed
Goto(p, at, changes) ==
    proc' = [proc EXCEPT ![p] = [f \in DOMAIN IdleProc |->
                IF f = "pc" THEN at
                ELSE IF f \in DOMAIN changes THEN changes[f]
                ELSE proc[p][f]]]

RaceStart(p) ==
    /\ proc[p].pc = "idle"
    /\ \E delete_original \in BOOLEAN, video_crf \in Crfs :
          Goto(p, "walking", [delete_original |-> delete_original,
                              video_crf |-> video_crf,
                              walk_stack |-> <<MainDir>>])
    /\ UNCHANGED <<fs, calls>>
    /\ RaceFrame

RaceWalkNext(p) ==
    /\ proc[p].pc = "walking"
    /\ proc[p].files = {}
    /\ proc[p].walk_stack # <<>>
    /\ Goto(p, "walking",
            [root |-> Head(proc[p].walk_stack),
             files |-> listdir(fs, Head(proc[p].walk_stack)),
             walk_stack |-> Subdirs(Head(proc[p].walk_stack))
                                \o Tail(proc[p].walk_stack)])
    /\ UNCHANGED <<fs, calls>>
    /\ RaceFrame

\* the loop body up to the dispatch: the tests on the name and on the output
RaceCheck(p) ==
    /\ proc[p].pc = "walking"
    /\ \E file \in proc[p].files :
          LET file_name == splitext(file)[1]
              extension == splitext(file)[2]
              new_file_name == file_name \o <<converted_tag>> \o Str(extension)
              original_file_path == join(proc[p].root, file)
              new_file_path == join(proc[p].root, new_file_name)
              rest == proc[p].files \ {file}
              call(fn) == [proc |-> p, fn |-> fn, src |-> original_file_path,
                           dst |-> new_file_path,
                           dst_existed |-> isfile(fs, new_file_path),
                           delete_original |-> proc[p].delete_original]
          IN  IF \/ ~InList(lower(extension), allowed_extensions)
                 \/ is_converted(file_name)
                 \/ would_overwrite(fs, new_file_path)
              THEN Goto(p, "walking", [files |-> rest]) /\ UNCHANGED calls
              ELSE IF InList(lower(extension), video_extensions)
              THEN /\ Goto(p, "ffmpeg_command",
                           [files |-> rest, src |-> original_file_path,
                            dst |-> new_file_path])
                   /\ calls' = calls \cup {call("ffmpeg_convert")}
              ELSE /\ Goto(p, "Image.open",
                           [files |-> rest, src |-> original_file_path,
                            dst |-> new_file_path])
                   /\ calls' = calls \cup {call("image_resize")}
    /\ UNCHANGED fs
    /\ RaceFrame

\* ffmpeg_convert: the command is built; the input must be a file
RaceCommand(p) ==
    /\ proc[p].pc = "ffmpeg_command"
    /\ LET built == ffmpeg_command(fs, platform, proc[p].src, proc[p].dst,
                                   proc[p].video_crf)
       IN  IF built.raises # ""
           THEN Goto(p, built.raises, <<>>)
           ELSE Goto(p, "os.system", [command |-> built.command])
    /\ UNCHANGED <<fs, calls>>
    /\ RaceFrame

\* ffmpeg_convert: the encoder runs
RaceSystem(p) ==
    /\ proc[p].pc = "os.system"
    /\ fs' \in os_system(fs, proc[p].command)
    /\ Goto(p, IF proc[p].delete_original THEN "os.remove" ELSE "walking", <<>>)
    /\ UNCHANGED calls
    /\ RaceFrame

\* image_resize: the image is opened
RaceOpen(p) ==
    /\ proc[p].pc = "Image.open"
    /\ IF ~isfile(fs, proc[p].src) \/ fs[proc[p].src] = NoSize
       THEN Goto(p, "ImageOpenError", <<>>)
       ELSE \/ Goto(p, "ImageOpenError", <<>>)
            \/ Goto(p, "save", [size |-> fs[proc[p].src]])
    /\ UNCHANGED <<fs, calls>>
    /\ RaceFrame

\* image_resize: the resized image is saved with the EXIF block of the source
RaceSave(p) ==
    /\ proc[p].pc = "save"
    /\ \/ Goto(p, "KeyError", <<>>) /\ UNCHANGED fs
       \/ /\ Goto(p, "ImageSaveError", <<>>)
          /\ fs' \in {fs, write(fs, proc[p].dst, NoSize)}
       \/ /\ Goto(p, "getsize", <<>>)
          /\ fs' = write(fs, proc[p].dst,
                         resized(proc[p].size, proc[p].new_image_width))
    /\ UNCHANGED calls
    /\ RaceFrame

\* image_resize: os.path.getsize of the original and of the new file
RaceGetsize(p) ==
    /\ proc[p].pc = "getsize"
    /\ IF ~isfile(fs, proc[p].src) \/ ~isfile(fs, proc[p].dst)
       THEN Goto(p, "FileNotFoundError", <<>>)
       ELSE Goto(p, IF proc[p].delete_original THEN "os.remove" ELSE "walking",
                 <<>>)
    /\ UNCHANGED <<fs, calls>>
    /\ RaceFrame

\* send_file_to_trash of the original
RaceRemove(p) ==
    /\ proc[p].pc = "os.remove"
    /\ IF ~isfile(fs, proc[p].src)
       THEN Goto(p, "FileNotFoundError", <<>>) /\ UNCHANGED fs
       ELSE Goto(p, "walking", <<>>) /\ fs' = send_file_to_trash(fs, proc[p].src)
    /\ UNCHANGED calls
    /\ RaceFrame

RaceReturn(p) ==
    /\ proc[p].pc = "walking"
    /\ proc[p].files = {}
    /\ proc[p].walk_stack = <<>>
    /\ Goto(p, "done", <<>>)
    /\ UNCHANGED <<fs, calls>>
    /\ RaceFrame

RaceNext ==
    \E p \in Procs :
        \/ RaceStart(p)
        \/ RaceWalkNext(p)
        \/ RaceCheck(p)
        \/ RaceCommand(p)
        \/ RaceSystem(p)
        \/ RaceOpen(p)
        \/ RaceSave(p)
        \/ RaceGetsize(p)
        \/ RaceRemove(p)
        \/ RaceReturn(p)

SpecRace == InitRace /\ [][RaceNext]_vars

----------------------------------------------------------------------------
(* Vocabulary of the properties, stated on paths *)

Stem(p) == splitext(p.name)[1]

Ext(p) == splitext(p.name)[2]

HasTag(p) == \E i \in 1..Len(Stem(p)) : Stem(p)[i] = "_CONVERTED"

HasAllowedExt(p) ==
    lower(Ext(p)) \in {".mp4", ".mov", ".mkv", ".jpg", ".jpeg", ".png"}

OutputPath(p) ==
    [dir |-> p.dir, name |-> Stem(p) \o <<"_CONVERTED">> \o Str(Ext(p))]

Removed == DOMAIN prev.fs \ DOMAIN fs

Created == DOMAIN fs \ DOMAIN prev.fs

ImageFailures == {"ImageOpenError", "KeyError", "ImageSaveError"}

----------------------------------------------------------------------------
(* Properties of the walk *)

\* C1 (as stated): once a run of main() has run to completion, the next run over
\* the same root dispatches no conversion and leaves the set of files as it was.
C1_SecondRunIdle ==
    prev.completed => (calls = {} /\ DOMAIN fs = DOMAIN prev.fs)

\* every conversion the previous run dispatched left its output or lost its original
PrevRunSettled == \A c \in prev.calls : c.dst_after \/ ~c.src_after

\* C1 (amended): once a run of main() has run to completion in which every
\* dispatched original either got its output file or was deleted, the next run
\* dispatches no conversion and leaves the set of files as it was.
C1_SecondRunIdleWhenSettled ==
    (prev.completed /\ PrevRunSettled) =>
        (calls = {} /\ DOMAIN fs = DOMAIN prev.fs)

C1_Witness ==
    /\ run = 2 /\ pc = "done" /\ prev.completed /\ PrevRunSettled
    /\ \E c \in prev.calls : c.src_after /\ c.dst_after
    /\ \E p \in DOMAIN visited : visited[p] = "exists"

\* C2: a file whose stem holds the converted tag, whatever its extension, is never
\* passed to a converter, is never deleted, and its would-be output is never created.
C2_TaggedNeverDispatched ==
    /\ \A c \in calls : ~HasTag(c.src)
    /\ \A p \in DOMAIN visited : HasTag(p) => visited[p] \in {"extension", "tag"}
    /\ run >= 1 =>
         /\ \A p \in DOMAIN prev.fs : HasTag(p) => p \in DOMAIN fs
         /\ \A p \in DOMAIN prev.fs \cup DOMAIN fs :
               HasTag(p) => OutputPath(p) \notin Created

C2_Witness ==
    /\ pc = "done"
    /\ calls # {}
    /\ \E p \in DOMAIN visited :
          /\ HasTag(p) /\ HasAllowedExt(p)
          /\ Stem(p)[Len(Stem(p))] # "_CONVERTED"
          /\ OutputPath(p) \notin DOMAIN fs

\* C3: a conversion is dispatched only when its output path is no file at the time
\* of the check, so no converted file, old or new, is written a second time, and a
\* file skipped because its output exists keeps its original.
C3_NoOverwrite ==
    /\ \A c \in calls : ~c.dst_existed /\ c.dst = OutputPath(c.src)
    /\ \A p \in DOMAIN visited : visited[p] = "exists" => p \in DOMAIN fs
    /\ run >= 1 =>
         \A p \in DOMAIN prev.fs :
            HasTag(p) => (p \in DOMAIN fs /\ fs[p] = prev.fs[p])

C3_Witness ==
    /\ pc = "done"
    /\ args.delete_original
    /\ \E p \in DOMAIN visited : visited[p] = "exists"
    /\ \E c \in calls : c.dst_after /\ ~c.src_after

\* C4: a call of ffmpeg_convert that returns has removed the source exactly when the
\* delete flag is set, whether or not the encoder left an output; the call fails to
\* return only where the platform has no ffmpeg path.
C4_VideoDeletion ==
    \A c \in calls :
        c.fn = "ffmpeg_convert" =>
            IF c.outcome = "returned"
            THEN c.src_after = ~c.delete_original
            ELSE c.outcome = "UnboundLocalError" /\ ffmpeg_path(platform) = Unbound

C4_Witness ==
    \E c \in calls :
        /\ c.fn = "ffmpeg_convert" /\ c.outcome = "returned" /\ c.delete_original
        /\ ~c.src_after /\ ~c.dst_after
        /\ c.src \notin DOMAIN fs /\ c.dst \notin DOMAIN fs

\* C5 (as stated): a call of image_resize with the delete flag set removes the
\* source, whether or not the image was opened and saved.
C5_ImageDeletionUnconditional ==
    \A c \in calls :
        (c.fn = "image_resize" /\ c.delete_original) => ~c.src_after

\* C5 (amended): a call of image_resize with the delete flag set removes the source
\* exactly when opening, reading the EXIF block and saving all succeeded; when one
\* of them fails the exception leaves the function before the removal and the
\* source stays.
C5_ImageDeletionAfterSave ==
    \A c \in calls :
        (c.fn = "image_resize" /\ c.delete_original) =>
            /\ ~c.src_after <=> c.outcome = "returned"
            /\ c.outcome = "returned" => c.dst_after

C5_Witness ==
    \E c \in calls :
        /\ c.fn = "image_resize" /\ c.delete_original
        /\ c.outcome = "ImageSaveError"
        /\ c.src \in DOMAIN fs

FailedImageCall ==
    \E c \in calls : c.fn = "image_resize" /\ c.outcome # "returned"

\* C8: a failure of the image library leaves main() as an exception at that file:
\* the failing call removes nothing, and for the rest of the run no file is
\* visited, dispatched, created or deleted.
C8_WalkAborts ==
    [][ /\ FailedImageCall' => pc' \in ImageFailures
        /\ (FailedImageCall' /\ ~FailedImageCall) =>
              \A p \in DOMAIN fs : p \in DOMAIN fs' /\ fs'[p] = fs[p]
        /\ (FailedImageCall /\ run' = run) =>
              UNCHANGED <<fs, calls, visited, files, walk_stack>> ]_vars

C8_Witness ==
    /\ pc \in ImageFailures
    /\ \E c \in calls : c.outcome = "returned" /\ c.dst_after
    /\ walk_stack # <<>>
    /\ \E p \in DOMAIN fs :
          /\ p.dir = SubDir /\ HasAllowedExt(p) /\ ~HasTag(p)
          /\ OutputPath(p) \notin DOMAIN fs

\* C10: within a run, a file is removed only as the original of a call made with the
\* delete flag set, a file is created only as the output of a dispatched original;
\* files with another extension, with the tag, or whose output existed when the run
\* started are unchanged, and without the delete flag nothing is removed.
C10_Frame ==
    run >= 1 =>
        /\ \A p \in Removed :
              \E c \in calls : c.src = p /\ c.delete_original /\ args.delete_original
        /\ \A q \in Created :
              \E c \in calls : c.dst = q /\ q = OutputPath(c.src)
        /\ \A p \in DOMAIN prev.fs :
              (~HasAllowedExt(p) \/ HasTag(p) \/ OutputPath(p) \in DOMAIN prev.fs)
                  => (p \in DOMAIN fs /\ fs[p] = prev.fs[p])
        /\ ~args.delete_original => Removed = {}

C10_Witness ==
    /\ pc = "done"
    /\ Removed # {} /\ Created # {}
    /\ \E p \in DOMAIN fs : ~HasAllowedExt(p)
    /\ \E p \in DOMAIN fs : HasTag(p) /\ p \notin Created
    /\ \E c \in calls : c.fn = "image_resize"

----------------------------------------------------------------------------
(* Properties of image_resize *)

Abs(x) == IF x < 0 THEN -x ELSE x

\* k is num / den rounded to the nearest integer, a tie to the even one
IsRounded(k, num, den) ==
    /\ 2 * Abs(k * den - num) <= den
    /\ 2 * Abs(k * den - num) = den => k % 2 = 0

\* C6: for a source of width w > 0 and height h > 0 and a target width t >= 0, the
\* image saved has width w when t = 0 or t >= w and width t when 0 < t < w, and its
\* height is new_width * h / w rounded (800 x 600 with target 400 gives 400 x 300).
C6_Dimensions ==
    \A c \in calls :
        (c.fn = "image_resize" /\ c.outcome = "returned") =>
            LET w == c.src_size[1]
                h == c.src_size[2]
                t == c.new_width
                nw == c.out_size[1]
                nh == c.out_size[2]
            IN  /\ (t = 0 \/ t >= w) => nw = w
                /\ (0 < t /\ t < w) => nw = t
                /\ IsRounded(nh, nw * h, w)
                /\ (w = 800 /\ h = 600 /\ t = 400) => (nw = 400 /\ nh = 300)

C6_Witness ==
    \E c \in calls :
        /\ c.fn = "image_resize" /\ c.outcome = "returned"
        /\ c.src_size = <<800, 600>> /\ c.new_width = 400
        /\ isfile(fs, c.dst) /\ fs[c.dst] = <<400, 300>>

----------------------------------------------------------------------------
(* Properties of readable_size *)

Units == <<"B", "KB", "MB", "GB", "TB", "PB">>

Rank(unit) == CHOOSE i \in 1..Len(Units) : Units[i] = unit

\* 1000^lo <= n, counted in digits of base 1000
AtLeastPow(n, lo) == Len(n) >= lo + 1

RECURSIVE Add(_, _, _)
\* a + b + carry on limb sequences
Add(a, b, carry) ==
    IF a = <<>> /\ b = <<>>
    THEN (IF carry = 0 THEN <<>> ELSE <<carry>>)
    ELSE LET x == IF a = <<>> THEN 0 ELSE Head(a)
             y == IF b = <<>> THEN 0 ELSE Head(b)
             ta == IF a = <<>> THEN <<>> ELSE Tail(a)
             tb == IF b = <<>> THEN <<>> ELSE Tail(b)
         IN  <<(x + y + carry) % 1000>> \o Add(ta, tb, (x + y + carry) \div 1000)

RECURSIVE Times(_, _, _)
\* a * m + carry for a small m
Times(a, m, carry) ==
    IF a = <<>>
    THEN (IF carry = 0 THEN <<>>
          ELSE <<carry % 1000>> \o Times(<<>>, m, carry \div 1000))
    ELSE <<(Head(a) * m + carry) % 1000>>
             \o Times(Tail(a), m, (Head(a) * m + carry) \div 1000)

\* v * 1000^k as limbs
Scaled(v, k) ==
    IF v = 0 THEN <<>> ELSE [i \in 1..k |-> 0] \o Times(<<>>, 1, v)

\* a < b, digit by digit from the top
Below(a, b) ==
    \/ Len(a) < Len(b)
    \/ Len(a) = Len(b) /\ a # b /\
         LET top == CHOOSE i \in 1..Len(a) :
                       a[i] # b[i] /\ \A j \in (i + 1)..Len(a) : a[j] = b[j]
         IN  a[top] < b[top]

\* the value printed, v hundredths, is within one hundredth of n / 1000^k
WithinOneHundredth(n, v, k) ==
    LET exact == Times(n, 100, 0)
        shown == Scaled(v, k)
        one == Scaled(1, k)
    IN  Below(exact, Add(shown, one, 0)) /\ Below(shown, Add(exact, one, 0))

UnitOf(n) == (CHOOSE s \in readable_size(n) : TRUE).unit

\* C7: readable_size(n) has unit B iff n < 1000, KB iff 1000 <= n < 1000^2, MB iff
\* 1000^2 <= n < 1000^3, GB iff 1000^3 <= n < 1000^4, TB iff 1000^4 <= n < 1000^5
\* and PB otherwise; the value shown is n over the unit's power of 1000 to two
\* decimals; 999 gives 999.00B, 1000 gives 1.00KB, 1000000 gives 1.00MB; and the
\* unit of a smaller count is never above the unit of a larger one.
C7_ReadableSize ==
    new_size # NoString =>
        LET n == size_in_bytes
            k == Rank(new_size.unit) - 1
        IN  /\ new_size.unit \in {Units[i] : i \in 1..Len(Units)}
            /\ \A i \in 0..4 :
                  new_size.unit = Units[i + 1]
                      <=> (~AtLeastPow(n, i + 1) /\ (i = 0 \/ AtLeastPow(n, i)))
            /\ new_size.unit = "PB" <=> AtLeastPow(n, 5)
            /\ Len(n) <= 3 =>
                  /\ new_size.unit = "B" <=> Val(n) < 1000
                  /\ new_size.unit = "KB" <=> (1000 <= Val(n) /\ Val(n) < 1000000)
                  /\ new_size.unit = "MB" <=> 1000000 <= Val(n)
            /\ new_size.unit = "B" => new_size.value = 100 * Val(n)
            /\ WithinOneHundredth(n, new_size.value, k)
            /\ n = <<999>> => new_size = [value |-> 99900, unit |-> "B"]
            /\ n = <<0, 1>> => new_size = [value |-> 100, unit |-> "KB"]
            /\ n = <<0, 0, 1>> => new_size = [value |-> 100, unit |-> "MB"]
            /\ \A m \in SizeInputs :
                  Below(m, n) => Rank(UnitOf(m)) <= Rank(new_size.unit)

C7_Witness ==
    /\ size_in_bytes = <<0, 0, 0, 0, 0, 1>>
    /\ new_size = [value |-> 100, unit |-> "PB"]

----------------------------------------------------------------------------
(* Properties of two concurrent runs *)

SourceMissing == {"FileExistsError", "FileNotFoundError"}

SameOutputTwice ==
    \E c1 \in calls, c2 \in calls :
        c1.proc # c2.proc /\ c1.src = c2.src /\ c1.dst = c2.dst

\* C9: with two runs at once, every dispatch follows a test that found the output
\* absent, and yet both runs can dispatch the same original to the same output
\* path; a run finds its source missing (at the test for the input, at the size
\* query or at the removal) only after the other run, with the delete flag set,
\* dispatched and removed that same original.
C9_RaceOnlyBetweenRuns ==
    /\ \A c \in calls : ~c.dst_existed
    /\ \A c1 \in calls, c2 \in calls :
          (c1.dst = c2.dst /\ c1 # c2) => (c1.proc # c2.proc /\ c1.src = c2.src)
    /\ \A p \in Procs :
          proc[p].pc \in SourceMissing =>
              /\ proc[p].src \notin DOMAIN fs
              /\ \E c \in calls :
                    c.proc # p /\ c.src = proc[p].src /\ c.delete_original

C9_Witness ==
    /\ SameOutputTwice
    /\ \E p \in Procs :
          /\ proc[p].pc = "FileNotFoundError"
          /\ proc[p].delete_original
          /\ InList(lower(Ext(proc[p].src)), video_extensions)
          /\ proc[p].src \notin DOMAIN fs

====
